---- MODULE Spec2Model ----
(***************************************************************************)
(* A model of the inverted indexer (src/indexer.py) and of the search      *)
(* engine (src/search.py).                                                 *)
(*                                                                         *)
(* Build side: process_files is modelled one corpus file per step          *)
(* (near-duplicate check, accumulation, spilling), followed by the final   *)
(* spill and merge_indexes.  Query side: load_index, get_postings,         *)
(* boolean_and_search and close, over the final index file the build       *)
(* wrote.                                                                  *)
(*                                                                         *)
(* Texts are modelled at word granularity: a text is a sequence of         *)
(* lowercase alphanumeric words, so re.findall(r'\b[a-zA-Z0-9]+\b', ...)   *)
(* yields exactly those words; the regular expression itself is modelled   *)
(* at character granularity in FindAll.  Python dicts that are iterated    *)
(* in insertion order are sequences of entries; dicts that are only        *)
(* looked up by key are functions.  Real numbers are fixed point (units    *)
(* of 1/1000); see Log10Milli and Score.                                   *)
(***************************************************************************)
EXTENDS Integers, Sequences, FiniteSets, TLC

(***************************************************************************)
(* Bounds of the model.                                                    *)
(***************************************************************************)
\* Corpus files ingested in the full pipeline (Spec).
MaxFiles == 3
\* Corpus files ingested when only the build is explored (SpecDedup).
MaxDedupFiles == 4
\* Corpus files ingested before the concurrent lookups (SpecTasks).
MaxTaskFiles == 2
\* Corpus files ingested before the engine is closed (SpecClose).
MaxCloseFiles == 2
\* Corpus files ingested before a merge on a new object (SpecRemerge).
MaxRemergeFiles == 2
\* Characters of a text given to the tokenizers (SpecTokenizer).
MaxTextLen == 3
\* The constructor parameter chunk_size (default 500, src/indexer.py:16).
chunk_size == 2
\* self.MAX_TOKEN_THRESHOLD (50000 at src/indexer.py:28), scaled down.
MAX_TOKEN_THRESHOLD == 2
\* The [-200:] window of src/indexer.py:81, scaled down.
RecentWindow == 1

(***************************************************************************)
(* Program constants.                                                      *)
(***************************************************************************)
\* `hamming_dist < 8`
HammingThreshold == 8
\* `jaccard_sim > 0.85`, in percent
JaccardPercent == 85
\* `hash_vector = [0] * 64`
FingerprintBits == 64

(***************************************************************************)
(* Inputs: the corpus files.                                               *)
(***************************************************************************)
\* Document urls.  A file's url is one already seen or the next unused one
\* of this list: urls are opaque keys, so this loses no behaviour.
UrlList == <<"A", "B", "C">>

Urls == {UrlList[i] : i \in 1..Len(UrlList)}

\* The html contents of the corpus files, by region: the <title> text, the
\* text of an emphasised (<b>) element, and plain text outside any element.
\* Elements are separated by whitespace.
\*   E   ""                       A1  "alpha"
\*   ABA "alpha beta alpha"       AAB "alpha alpha betas"
\*   TA  "<title>alpha</title>"   BG  "<b>gamma</b>"
Content ==
    [E   |-> [title |-> <<>>, emph |-> <<>>, plain |-> <<>>],
     A1  |-> [title |-> <<>>, emph |-> <<>>, plain |-> <<"alpha">>],
     ABA |-> [title |-> <<>>, emph |-> <<>>, plain |-> <<"alpha", "beta", "alpha">>],
     AAB |-> [title |-> <<>>, emph |-> <<>>, plain |-> <<"alpha", "alpha", "betas">>],
     TA  |-> [title |-> <<"alpha">>, emph |-> <<>>, plain |-> <<>>],
     BG  |-> [title |-> <<>>, emph |-> <<"gamma">>, plain |-> <<>>]]

ContentNames == DOMAIN Content

\* ord(char) of each character of the words that occur in the raw html.
Ord ==
    [alpha |-> <<97, 108, 112, 104, 97>>,
     beta  |-> <<98, 101, 116, 97>>,
     betas |-> <<98, 101, 116, 97, 115>>,
     gamma |-> <<103, 97, 109, 109, 97>>,
     title |-> <<116, 105, 116, 108, 101>>,
     b     |-> <<98>>]

(***************************************************************************)
(* Helpers on sequences and dicts.                                         *)
(***************************************************************************)
SeqToSet(s) == {s[i] : i \in 1..Len(s)}

EmptyDict == <<>>

Min(a, b) == IF a < b THEN a ELSE b

\* The last n elements of s: s[-n:].
LastN(s, n) == SubSeq(s, Len(s) - Min(n, Len(s)) + 1, Len(s))

\* Number of occurrences of x in s.
RECURSIVE Count(_, _)
Count(s, x) ==
    IF s = <<>> THEN 0
    ELSE (IF Head(s) = x THEN 1 ELSE 0) + Count(Tail(s), x)

\* A dict that keeps insertion order is a sequence of [key, value] entries.
Keys(d) == [i \in 1..Len(d) |-> d[i].key]

HasKey(d, k) == \E i \in 1..Len(d) : d[i].key = k

Lookup(d, k) == d[CHOOSE i \in 1..Len(d) : d[i].key = k].value

\* d[k] = v: an existing key keeps its place, a new key goes last.
Put(d, k, v) ==
    IF HasKey(d, k)
    THEN [i \in 1..Len(d) |-> IF d[i].key = k THEN [key |-> k, value |-> v] ELSE d[i]]
    ELSE Append(d, [key |-> k, value |-> v])

(***************************************************************************)
(* Tokenizer: InvertedIndexer.extract_tokens and the lemmatizer.           *)
(***************************************************************************)
\* WordNetLemmatizer.lemmatize on the model's vocabulary: a plural noun
\* goes to its singular, every other word is its own lemma.
Lemmatize(word) == IF word = "betas" THEN "beta" ELSE word

LemmatizeAll(words) == [i \in 1..Len(words) |-> Lemmatize(words[i])]

\* soup.get_text(): the text of the whole document, title included.
GetText(c) == c.title \o c.emph \o c.plain

\* important_text (title, then h1/h2/h3/b/strong) followed by the body text.
extract_tokens(c) ==
    LemmatizeAll(c.title) \o LemmatizeAll(c.emph) \o LemmatizeAll(GetText(c))

\* The words re.findall finds in the raw html: tag names are words too.
RawWords(c) ==
    (IF c.title = <<>> THEN <<>> ELSE <<"title">> \o c.title \o <<"title">>)
    \o (IF c.emph = <<>> THEN <<>> ELSE <<"b">> \o c.emph \o <<"b">>)
    \o c.plain

(***************************************************************************)
(* Near-duplicate detection: simple_hash, simhash, hamming_distance,       *)
(* jaccard_similarity.                                                     *)
(***************************************************************************)
\* hash_value = (hash_value * 31 + ord(char)) & 0xFFFFFFFFFFFFFFFF.  The
\* model's words have at most five characters, so the value stays below
\* 2^27 and the 64-bit mask never cuts anything.
RECURSIVE HashFrom(_, _)
HashFrom(chars, hash_value) ==
    IF chars = <<>> THEN hash_value
    ELSE HashFrom(Tail(chars), hash_value * 31 + Head(chars))

simple_hash(word) == HashFrom(Ord[word], 0)

\* (word_hash >> i) & 1, for a word_hash below 2^31.
Bit(word_hash, i) == IF i > 30 THEN 0 ELSE (word_hash \div (2 ^ i)) % 2

\* hash_vector[i] after all words: +1 for a 1-bit, -1 for a 0-bit.
RECURSIVE Vote(_, _)
Vote(words, i) ==
    IF words = <<>> THEN 0
    ELSE (IF Bit(simple_hash(Head(words)), i) = 1 THEN 1 ELSE -1)
         + Vote(Tail(words), i)

\* The fingerprint, as the set of its 1-bits.
simhash(c) == {i \in 0..(FingerprintBits - 1) : Vote(RawWords(c), i) > 0}

SimhashOf == [n \in ContentNames |-> simhash(Content[n])]

\* A faulty variant: hash1 | hash2 in place of hash1 ^ hash2.
hamming_distance_or(hash1, hash2) == Cardinality(hash1 \cup hash2)

\* bin(hash1 ^ hash2).count('1')
hamming_distance(hash1, hash2) ==
    Cardinality((hash1 \ hash2) \cup (hash2 \ hash1))

\* jaccard_similarity(text1, text2) > 0.85, on the word sets of the two
\* cleaned texts; the similarity of two empty texts is 0.
JaccardExceeds(text1, text2) ==
    LET words1 == SeqToSet(text1)
        words2 == SeqToSet(text2)
        intersection == Cardinality(words1 \cap words2)
        union == Cardinality(words1 \cup words2)
    IN  union > 0 /\ intersection * 100 > JaccardPercent * union

(***************************************************************************)
(* Fixed-point logarithm.                                                  *)
(***************************************************************************)
\* round(1000 * log10(n)) for n = 1..16.
Log10Table ==
    <<0, 301, 477, 602, 699, 778, 845, 903, 954, 1000,
      1041, 1079, 1114, 1146, 1176, 1204>>

Log10Milli(n) == Log10Table[n]

(***************************************************************************)
(* State.                                                                  *)
(***************************************************************************)
VARIABLES
    \* InvertedIndexer
    inverted_index,        \* term -> (url -> {tf, tf-idf}), in insertion order
    doc_count,
    partial_index_count,
    doc_urls,
    document_frequencies,  \* term -> number of accepted documents with it
    simhashes,             \* url -> fingerprint, in insertion order
    text_store,            \* url -> cleaned text
    \* the index directory
    partial_files,         \* partial_index_<k>.jsonl, each a sequence of lines
    final_index_file,      \* final_index.jsonl, a sequence of lines
    \* where the build stands, and the files it has read so far
    phase,
    history,
    \* SearchEngine
    engine,                \* "absent", "ready" or "load_failed"
    index_file,
    mmap_obj,
    mmap_pos,
    term_offsets,
    \* the last boolean_and_search, and the same query in a second run
    query,
    search_status,
    ranked,
    rerun_status,
    rerun_ranked,
    \* close()
    close_raised,
    \* concurrent get_postings calls
    task_pc,
    task_term,
    task_line,
    task_ret,
    \* the tokenizers applied to one text
    text,                  \* the text, a sequence of characters
    tokenized,             \* which of the two tokenizers have run on it
    index_words,           \* `words` of extract_tokens
    query_words            \* `words` of tokenize_and_lemmatize

indexer_vars ==
    <<inverted_index, doc_count, partial_index_count, doc_urls,
      document_frequencies, simhashes, text_store, partial_files,
      final_index_file, phase, history>>

engine_vars == <<engine, index_file, mmap_obj, mmap_pos, term_offsets>>

search_vars == <<query, search_status, ranked, rerun_status, rerun_ranked>>

close_vars == <<close_raised>>

task_vars == <<task_pc, task_term, task_line, task_ret>>

tokenizer_vars == <<text, tokenized, index_words, query_words>>

vars ==
    <<indexer_vars, engine_vars, search_vars, close_vars, task_vars, tokenizer_vars>>

Tasks == {1, 2}

\* InvertedIndexer.__init__ and SearchEngine not yet constructed.
InitProgram ==
    /\ inverted_index = <<>>
    /\ doc_count = 0
    /\ partial_index_count = 0
    /\ doc_urls = {}
    /\ document_frequencies = EmptyDict
    /\ simhashes = <<>>
    /\ text_store = EmptyDict
    /\ partial_files = <<>>
    /\ final_index_file = <<>>
    /\ phase = "processing"
    /\ history = <<>>
    /\ engine = "absent"
    /\ index_file = "None"
    /\ mmap_obj = "None"
    /\ mmap_pos = 0
    /\ term_offsets = EmptyDict
    /\ query = <<>>
    /\ search_status = "none"
    /\ ranked = <<>>
    /\ rerun_status = "none"
    /\ rerun_ranked = <<>>
    /\ close_raised = FALSE
    /\ task_pc = [t \in Tasks |-> "idle"]
    /\ task_term = [t \in Tasks |-> ""]
    /\ task_line = [t \in Tasks |-> <<>>]
    /\ task_ret = [t \in Tasks |-> EmptyDict]
    /\ tokenized = {}
    /\ index_words = <<>>
    /\ query_words = <<>>

Init == InitProgram /\ text = <<>>

(***************************************************************************)
(* InvertedIndexer.process_files, one file of file_list per step.          *)
(***************************************************************************)
\* json.dumps({term: postings}) and json.loads of such a line.
JsonDumps(term, postings) == <<[key |-> term, value |-> postings]>>

JsonLoads(line) == line

\* self.inverted_index[token][url]["tf"] += 1, on the defaultdicts.
AddToken(index, token, url) ==
    LET postings == IF HasKey(index, token) THEN Lookup(index, token) ELSE EmptyDict
        old == IF url \in DOMAIN postings THEN postings[url]
               ELSE [tf |-> 0, tf_idf |-> 0]
        new == [old EXCEPT !.tf = @ + 1]
    IN  Put(index, token, (url :> new) @@ postings)

RECURSIVE AddTokens(_, _, _)
AddTokens(index, tokens, url) ==
    IF tokens = <<>> THEN index
    ELSE AddTokens(AddToken(index, Head(tokens), url), Tail(tokens), url)

\* self.document_frequencies[term] += 1 for every term of unique_terms.
BumpFrequencies(df, unique_terms) ==
    [t \in DOMAIN df \cup unique_terms |->
        (IF t \in DOMAIN df THEN df[t] ELSE 0)
        + (IF t \in unique_terms THEN 1 ELSE 0)]

\* The lines write_partial_index writes for the accumulator.
IndexLines(index) ==
    [i \in 1..Len(index) |-> JsonDumps(index[i].key, index[i].value)]

\* The near-duplicate check of one document against recent_urls.
IsDuplicate(hashes, texts, content_simhash, cleaned_text) ==
    LET recent_urls == LastN(Keys(hashes), RecentWindow)
    IN  \E k \in 1..Len(recent_urls) :
            LET existing_url == recent_urls[k]
            IN  /\ hamming_distance(content_simhash, Lookup(hashes, existing_url))
                       < HammingThreshold
                /\ JaccardExceeds(cleaned_text, texts[existing_url])

\* The urls the next file may carry (see UrlList).
NextUrls ==
    LET used == {history[i].url : i \in 1..Len(history)}
        n == Cardinality(used)
    IN  used \cup (IF n < Len(UrlList) THEN {UrlList[n + 1]} ELSE {})

ProcessFile(url, name) ==
    LET html_content == Content[name]
        tokens == extract_tokens(html_content)
        cleaned_text == tokens
        content_simhash == SimhashOf[name]
        is_duplicate == IsDuplicate(simhashes, text_store, content_simhash, cleaned_text)
        index1 == AddTokens(inverted_index, tokens, url)
        count1 == doc_count + 1
        spill == \/ count1 % chunk_size = 0
                 \/ Len(index1) >= MAX_TOKEN_THRESHOLD
        \* write_partial_index returns at once on an empty accumulator
        writes == spill /\ index1 # <<>>
    IN  /\ phase = "processing"
        /\ url \in NextUrls
        /\ history' = Append(history,
                             [url |-> url, content |-> name, accepted |-> ~is_duplicate,
                              \* current_token_count, and whether the condition
                              \* of the `if` that calls write_partial_index held
                              terms |-> IF is_duplicate THEN Len(inverted_index)
                                        ELSE Len(index1),
                              spilled |-> ~is_duplicate /\ spill])
        /\ IF is_duplicate
           THEN UNCHANGED <<inverted_index, doc_count, partial_index_count, doc_urls,
                            document_frequencies, simhashes, text_store, partial_files>>
           ELSE /\ simhashes' = Put(simhashes, url, content_simhash)
                /\ text_store' = (url :> cleaned_text) @@ text_store
                /\ document_frequencies' =
                       BumpFrequencies(document_frequencies, SeqToSet(tokens))
                /\ doc_urls' = doc_urls \cup {url}
                /\ doc_count' = count1
                /\ inverted_index' = IF writes THEN <<>> ELSE index1
                /\ partial_files' =
                       IF writes THEN Append(partial_files, IndexLines(index1))
                       ELSE partial_files
                /\ partial_index_count' =
                       IF writes THEN partial_index_count + 1 ELSE partial_index_count
        /\ UNCHANGED <<final_index_file, phase>>
        /\ UNCHANGED <<engine_vars, search_vars, close_vars, task_vars, tokenizer_vars>>

\* The end of process_files: "Write any remaining data".
FinishProcessFiles ==
    /\ phase = "processing"
    /\ phase' = "processed"
    /\ IF inverted_index # <<>>
       THEN /\ partial_files' = Append(partial_files, IndexLines(inverted_index))
            /\ inverted_index' = <<>>
            /\ partial_index_count' = partial_index_count + 1
       ELSE UNCHANGED <<partial_files, inverted_index, partial_index_count>>
    /\ UNCHANGED <<doc_count, doc_urls, document_frequencies, simhashes, text_store,
                   final_index_file, history>>
    /\ UNCHANGED <<engine_vars, search_vars, close_vars, task_vars, tokenizer_vars>>

(***************************************************************************)
(* InvertedIndexer.merge_indexes and compute_tf_idf.                       *)
(***************************************************************************)
\* final_index[term][doc_id]["tf"] += data["tf"]
AddPosting(index, term, doc_id, tf) ==
    LET postings == IF HasKey(index, term) THEN Lookup(index, term) ELSE EmptyDict
        old == IF doc_id \in DOMAIN postings THEN postings[doc_id]
               ELSE [tf |-> 0, tf_idf |-> 0]
        new == [old EXCEPT !.tf = @ + tf]
    IN  Put(index, term, (doc_id :> new) @@ postings)

\* One line of a partial index folded into final_index.
RECURSIVE AddPostings(_, _, _, _)
AddPostings(index, term, postings, docs) ==
    IF docs = {} THEN index
    ELSE LET doc_id == CHOOSE d \in docs : TRUE
         IN  AddPostings(AddPosting(index, term, doc_id, postings[doc_id].tf),
                         term, postings, docs \ {doc_id})

RECURSIVE MergeLines(_, _)
MergeLines(index, lines) ==
    IF lines = <<>> THEN index
    ELSE LET entry == JsonLoads(Head(lines))
             term == entry[1].key
             postings == entry[1].value
         IN  MergeLines(AddPostings(index, term, postings, DOMAIN postings),
                        Tail(lines))

\* A faulty variant: only the first partial file listed is read.
RECURSIVE MergeFirstFile(_, _, _)
MergeFirstFile(index, files, order) ==
    IF order = <<>> THEN index ELSE MergeLines(index, files[Head(order)])

\* The partial files folded in the order glob lists them.
RECURSIVE MergeFiles(_, _, _)
MergeFiles(index, files, order) ==
    IF order = <<>> THEN index
    ELSE MergeFiles(MergeLines(index, files[Head(order)]), files, Tail(order))

\* A faulty variant: log10(df / total_documents).
IdfInverted(total_documents, df) ==
    IF df > 0 THEN Log10Milli(df) - Log10Milli(total_documents) ELSE 0

\* idf = math.log10(total_documents / df) if df > 0 else 0, in 1/1000.
Idf(total_documents, df) ==
    IF df > 0 THEN Log10Milli(total_documents) - Log10Milli(df) ELSE 0

\* A faulty variant: the term frequency does not enter the weight.
TfWeightFlat(tf) == IF tf > 0 THEN 1000 ELSE 0

\* tf = 1 + math.log10(data["tf"]) if data["tf"] > 0 else 0, in 1/1000.
TfWeight(tf) == IF tf > 0 THEN 1000 + Log10Milli(tf) ELSE 0

\* tf * idf, in 1/1000.
TfIdf(tf, total_documents, df) ==
    (TfWeight(tf) * Idf(total_documents, df)) \div 1000

\* self.document_frequencies[term] on the defaultdict(int).
DfOf(df, term) == IF term \in DOMAIN df THEN df[term] ELSE 0

\* self.document_frequencies after compute_tf_idf: reading a missing key of
\* the defaultdict(int) inserts it with the value 0.
FrequenciesRead(df, index) ==
    [t \in DOMAIN df \cup {index[i].key : i \in 1..Len(index)} |-> DfOf(df, t)]

compute_tf_idf(index, total_documents, frequencies) ==
    [i \in 1..Len(index) |->
        [key |-> index[i].key,
         value |-> [doc_id \in DOMAIN index[i].value |->
                       [tf |-> index[i].value[doc_id].tf,
                        tf_idf |-> TfIdf(index[i].value[doc_id].tf,
                                         total_documents,
                                         DfOf(frequencies, index[i].key))]]]]

\* The orders in which the members of a set can be listed.
Orders(S) ==
    {f \in [1..Cardinality(S) -> S] : \A i, j \in 1..Cardinality(S) : f[i] = f[j] => i = j}

\* merge_indexes.  glob returns the partial files in directory order, which
\* the file system decides.
MergeIndexes(order) ==
    LET final_index == MergeFiles(<<>>, partial_files, order)
        weighted == compute_tf_idf(final_index, doc_count, document_frequencies)
    IN  /\ phase = "processed"
        /\ phase' = "merged"
        /\ inverted_index' = weighted
        /\ final_index_file' = IndexLines(weighted)
        /\ document_frequencies' = FrequenciesRead(document_frequencies, final_index)
        /\ UNCHANGED <<doc_count, partial_index_count, doc_urls,
                       simhashes, text_store, partial_files, history>>
        /\ UNCHANGED <<engine_vars, search_vars, close_vars, task_vars, tokenizer_vars>>

\* InvertedIndexer.__init__ on an index directory that holds the partial
\* indexes of an earlier process_files: the constructor creates the
\* directory only if it is missing, and the new object starts with empty
\* counters.  merge_indexes can then be called on it.
NewIndexer ==
    /\ phase = "processed"
    /\ inverted_index' = <<>>
    /\ doc_count' = 0
    /\ partial_index_count' = 0
    /\ doc_urls' = {}
    /\ document_frequencies' = EmptyDict
    /\ simhashes' = <<>>
    /\ text_store' = EmptyDict
    /\ UNCHANGED <<partial_files, final_index_file, phase, history>>
    /\ UNCHANGED <<engine_vars, search_vars, close_vars, task_vars, tokenizer_vars>>

(***************************************************************************)
(* SearchEngine.load_index and get_postings.                               *)
(*                                                                         *)
(* The index file is ASCII (json.dumps escapes everything else), so the    *)
(* offsets f.tell() reports are the byte offsets mmap seeks to.  An offset *)
(* is modelled by the number of lines before it.                           *)
(***************************************************************************)
\* self.term_offsets after the scan of the file.
RECURSIVE ScanOffsets(_, _, _)
ScanOffsets(lines, offset, offsets) ==
    IF offset >= Len(lines) THEN offsets
    ELSE LET term_data == JsonLoads(lines[offset + 1])
             term == term_data[1].key
         IN  ScanOffsets(lines, offset + 1,
                         (term :> offset) @@ [t \in DOMAIN offsets \ {term} |-> offsets[t]])

\* SearchEngine.__init__: mmap.mmap raises ValueError on an empty file, after
\* the file has been opened.
LoadIndex ==
    /\ phase = "merged"
    /\ engine = "absent"
    /\ index_file' = "open"
    /\ IF final_index_file = <<>>
       THEN /\ engine' = "load_failed"
            /\ UNCHANGED <<mmap_obj, mmap_pos, term_offsets>>
       ELSE /\ engine' = "ready"
            /\ mmap_obj' = "open"
            /\ mmap_pos' = 0
            /\ term_offsets' = ScanOffsets(final_index_file, 0, EmptyDict)
    /\ UNCHANGED <<indexer_vars, search_vars, close_vars, task_vars, tokenizer_vars>>

\* self.mmap_obj.readline() with the cursor at pos: the line there, or
\* nothing at the end of the file.
ReadLine(pos) ==
    IF pos < Len(final_index_file) THEN final_index_file[pos + 1] ELSE <<>>

PosAfterReadLine(pos) ==
    IF pos < Len(final_index_file) THEN pos + 1 ELSE pos

\* json.loads(line) and json_obj.get(term, {}); an empty line does not
\* decode and gives {}.
ParseLine(line, term) ==
    IF line = <<>> THEN EmptyDict
    ELSE LET json_obj == JsonLoads(line)
         IN  IF json_obj[1].key = term THEN json_obj[1].value ELSE EmptyDict

\* get_postings(term) run without interruption.
get_postings(term) ==
    IF term \notin DOMAIN term_offsets THEN EmptyDict
    ELSE ParseLine(ReadLine(term_offsets[term]), term)

\* The cursor after get_postings has been called for each of terms in turn.
RECURSIVE PosAfter(_, _)
PosAfter(terms, pos) ==
    IF terms = <<>> THEN pos
    ELSE PosAfter(Tail(terms),
                  IF Head(terms) \in DOMAIN term_offsets
                  THEN PosAfterReadLine(term_offsets[Head(terms)])
                  ELSE pos)

(***************************************************************************)
(* SearchEngine.boolean_and_search.                                        *)
(***************************************************************************)
\* The queries put to the engine, as the words of the query string.
Queries ==
    {<<>>, <<"alpha">>, <<"zeta">>, <<"alpha", "betas">>, <<"gamma", "alpha">>}

tokenize_and_lemmatize(q) == LemmatizeAll(q)

\* A faulty variant: the union of the posting lists in place of their
\* intersection.
CommonDocsUnion(terms) ==
    UNION {DOMAIN get_postings(terms[i]) : i \in 1..Len(terms)}

\* set.intersection(*posting_list), where posting_list holds the key set of
\* each query term's postings.
CommonDocs(terms) ==
    {doc \in UNION {DOMAIN get_postings(terms[i]) : i \in 1..Len(terms)} :
        \A i \in 1..Len(terms) : doc \in DOMAIN get_postings(terms[i])}

\* term_postings[term].get(doc_id, {}).get("tf-idf", 0)
Weight(term, doc_id) ==
    LET postings == get_postings(term)
    IN  IF doc_id \in DOMAIN postings THEN postings[doc_id].tf_idf ELSE 0

RECURSIVE SumOver(_, _, _)
SumOver(terms, doc_id, square) ==
    IF terms = <<>> THEN 0
    ELSE (IF square THEN Weight(Head(terms), doc_id) * Weight(Head(terms), doc_id)
          ELSE Weight(Head(terms), doc_id))
         + SumOver(Tail(terms), doc_id, square)

\* The integer square root, by bisection.
RECURSIVE SqrtBetween(_, _, _)
SqrtBetween(n, lo, hi) ==
    IF lo >= hi THEN lo
    ELSE LET mid == (lo + hi + 1) \div 2
         IN  IF mid * mid <= n THEN SqrtBetween(n, mid, hi)
             ELSE SqrtBetween(n, lo, mid - 1)

ISqrt(n) == SqrtBetween(n, 0, Min(n, 46340))

\* np.dot(v, q) / (np.linalg.norm(v) * np.linalg.norm(q) + 1e-9) for the
\* all-ones query vector q, as the fraction <<numerator, denominator>>: the
\* numerator in 1/1000, the denominator in 1e-9, so that the 1e-9 is 1.
Score(terms, doc_id) ==
    LET dot == SumOver(terms, doc_id, FALSE)
        norm_doc == ISqrt(SumOver(terms, doc_id, TRUE))
        norm_query == ISqrt(Len(terms) * 1000000)
    IN  <<dot, norm_doc * norm_query * 1000 + 1>>

\* a/b < c/d for a, c >= 0 and b, d > 0, without multiplying.
RECURSIVE FractionLess(_, _, _, _)
FractionLess(a, b, c, d) ==
    IF a \div b # c \div d THEN a \div b < c \div d
    ELSE IF c % d = 0 THEN FALSE
    ELSE IF a % b = 0 THEN TRUE
    ELSE FractionLess(d, c % d, b, a % b)

ScoreLess(s1, s2) == FractionLess(s1[1], s1[2], s2[1], s2[2])

\* doc_id put into a list sorted by descending score, after the documents
\* whose score is not lower: sorted(..., reverse=True) is stable.
RECURSIVE InsertRanked(_, _, _)
InsertRanked(sorted, doc_id, terms) ==
    IF sorted = <<>> THEN <<doc_id>>
    ELSE IF ScoreLess(Score(terms, Head(sorted)), Score(terms, doc_id))
         THEN <<doc_id>> \o sorted
         ELSE <<Head(sorted)>> \o InsertRanked(Tail(sorted), doc_id, terms)

RECURSIVE SortRanked(_, _, _)
SortRanked(sorted, rest, terms) ==
    IF rest = <<>> THEN sorted
    ELSE SortRanked(InsertRanked(sorted, Head(rest), terms), Tail(rest), terms)

\* The ranked result for terms, with common_docs iterated in the given order.
RankedResults(terms, iteration) == SortRanked(<<>>, iteration, terms)

\* What boolean_and_search ranks: nothing if the query or a posting list is
\* empty.
DocsToRank(terms) ==
    IF terms = <<>> THEN {}
    ELSE IF \E i \in 1..Len(terms) : DOMAIN get_postings(terms[i]) = {} THEN {}
    ELSE CommonDocs(terms)

\* boolean_and_search(q).  common_docs is a set of str: the order in which
\* sorted() iterates it depends on the process's string hash seed.  On a
\* closed mmap, seek raises ValueError for the first term the directory has.
BooleanAndSearch(q) ==
    LET query_terms == tokenize_and_lemmatize(q)
        touches == \E i \in 1..Len(query_terms) : query_terms[i] \in DOMAIN term_offsets
    IN  /\ engine = "ready"
        /\ query' = q
        /\ rerun_status' = "none"
        /\ rerun_ranked' = <<>>
        /\ IF touches /\ mmap_obj # "open"
           THEN /\ search_status' = "raised"
                /\ ranked' = <<>>
                /\ UNCHANGED mmap_pos
           ELSE /\ search_status' = "ok"
                /\ mmap_pos' = PosAfter(query_terms, mmap_pos)
                /\ \E iteration \in Orders(DocsToRank(query_terms)) :
                       ranked' = RankedResults(query_terms, iteration)
        /\ UNCHANGED <<engine, index_file, mmap_obj, term_offsets>>
        /\ UNCHANGED <<indexer_vars, close_vars, task_vars, tokenizer_vars>>

\* The same corpus built, opened and queried again in another process: the
\* build is a function of the corpus, so the second run reads the same index.
Rerun ==
    LET query_terms == tokenize_and_lemmatize(query)
    IN  /\ engine = "ready"
        /\ search_status = "ok"
        /\ rerun_status = "none"
        /\ rerun_status' = "ok"
        /\ \E iteration \in Orders(DocsToRank(query_terms)) :
               rerun_ranked' = RankedResults(query_terms, iteration)
        /\ UNCHANGED <<query, search_status, ranked>>
        /\ UNCHANGED <<indexer_vars, engine_vars, close_vars, task_vars, tokenizer_vars>>

(***************************************************************************)
(* SearchEngine.close.                                                     *)
(***************************************************************************)
\* `if self.mmap_obj:` takes the truth value of the mmap, which is its
\* length: on a closed mmap that raises ValueError("mmap closed or invalid").
Close ==
    /\ engine = "ready"
    /\ IF mmap_obj = "closed"
       THEN /\ close_raised' = TRUE
            /\ UNCHANGED <<mmap_obj, index_file>>
       ELSE /\ mmap_obj' = "closed"
            /\ index_file' = "closed"
            /\ UNCHANGED close_raised
    /\ UNCHANGED <<engine, mmap_pos, term_offsets>>
    /\ UNCHANGED <<indexer_vars, search_vars, task_vars, tokenizer_vars>>

(***************************************************************************)
(* get_postings called from several tasks on one engine.  The calls share  *)
(* self.mmap_obj and with it the cursor that seek sets and readline moves; *)
(* a task can be preempted between any two of its calls on the mmap.       *)
(***************************************************************************)
\* The terms the tasks look up.
TaskTerms == {"alpha", "beta", "zeta"}

\* term = term.lower(); a term the directory lacks returns {} at once.
TaskCall(t, term) ==
    /\ engine = "ready"
    /\ task_pc[t] = "idle"
    /\ task_term' = [task_term EXCEPT ![t] = term]
    /\ IF term \notin DOMAIN term_offsets
       THEN /\ task_pc' = [task_pc EXCEPT ![t] = "done"]
            /\ task_ret' = [task_ret EXCEPT ![t] = EmptyDict]
       ELSE /\ task_pc' = [task_pc EXCEPT ![t] = "seek"]
            /\ UNCHANGED task_ret
    /\ UNCHANGED task_line
    /\ UNCHANGED <<indexer_vars, engine_vars, search_vars, close_vars, tokenizer_vars>>

\* self.mmap_obj.seek(self.term_offsets[term])
TaskSeek(t) ==
    /\ task_pc[t] = "seek"
    /\ mmap_pos' = term_offsets[task_term[t]]
    /\ task_pc' = [task_pc EXCEPT ![t] = "readline"]
    /\ UNCHANGED <<task_term, task_line, task_ret>>
    /\ UNCHANGED <<engine, index_file, mmap_obj, term_offsets>>
    /\ UNCHANGED <<indexer_vars, search_vars, close_vars, tokenizer_vars>>

\* line = self.mmap_obj.readline()
TaskReadLine(t) ==
    /\ task_pc[t] = "readline"
    /\ task_line' = [task_line EXCEPT ![t] = ReadLine(mmap_pos)]
    /\ mmap_pos' = PosAfterReadLine(mmap_pos)
    /\ task_pc' = [task_pc EXCEPT ![t] = "parse"]
    /\ UNCHANGED <<task_term, task_ret>>
    /\ UNCHANGED <<engine, index_file, mmap_obj, term_offsets>>
    /\ UNCHANGED <<indexer_vars, search_vars, close_vars, tokenizer_vars>>

\* json.loads(line), json_obj.get(term, {}), return.
TaskParse(t) ==
    /\ task_pc[t] = "parse"
    /\ task_ret' = [task_ret EXCEPT ![t] = ParseLine(task_line[t], task_term[t])]
    /\ task_pc' = [task_pc EXCEPT ![t] = "done"]
    /\ UNCHANGED <<task_term, task_line>>
    /\ UNCHANGED <<indexer_vars, engine_vars, search_vars, close_vars, tokenizer_vars>>

(***************************************************************************)
(* The tokenizers at character granularity: the line                       *)
(*     words = re.findall(r'\b[a-zA-Z0-9]+\b', text.lower())               *)
(* of extract_tokens and of tokenize_and_lemmatize, before lemmatization.  *)
(* A text is a sequence of characters without markup, so that get_text()   *)
(* returns it as it is.                                                    *)
(***************************************************************************)
\* The characters of the texts: an ASCII lowercase letter, an ASCII
\* uppercase letter, a digit, the underscore, a blank and a non-ASCII letter.
Chars == {"a", "B", "7", "_", " ", "e_acute"}

\* The texts of at most MaxTextLen characters.
Texts == UNION {[1..n -> Chars] : n \in 0..MaxTextLen}

\* str.lower()
Lower(s) == [i \in 1..Len(s) |-> IF s[i] = "B" THEN "b" ELSE s[i]]

\* A character [a-zA-Z0-9] matches.
IsAlnum(c) == c \in {"a", "b", "B", "7"}

\* A character \w matches in a str pattern: Unicode letters and digits, and
\* the underscore.
IsWordChar(c) == IsAlnum(c) \/ c \in {"_", "e_acute"}

\* \b matches at offset p: exactly one side of it is a \w character.
Boundary(s, p) ==
    (p > 0 /\ IsWordChar(s[p])) # (p < Len(s) /\ IsWordChar(s[p + 1]))

\* The offsets at which a match of \b[a-zA-Z0-9]+\b that starts at offset p
\* can end.
MatchEnds(s, p) ==
    IF ~Boundary(s, p) THEN {}
    ELSE {q \in (p + 1)..Len(s) :
              /\ \A k \in (p + 1)..q : IsAlnum(s[k])
              /\ Boundary(s, q)}

\* re.findall from offset p: the leftmost match, the longest first, then on
\* from its end; where nothing matches, on from the next offset.
RECURSIVE FindAll(_, _)
FindAll(s, p) ==
    IF p >= Len(s) THEN <<>>
    ELSE LET ends == MatchEnds(s, p)
         IN  IF ends = {} THEN FindAll(s, p + 1)
             ELSE LET q == CHOOSE e \in ends : \A f \in ends : f <= e
                  IN  <<SubSeq(s, p + 1, q)>> \o FindAll(s, q)

\* extract_tokens on a text without markup: important_text is empty and
\* body_text is the text.
ExtractTokensWords ==
    /\ "index" \notin tokenized
    /\ tokenized' = tokenized \cup {"index"}
    /\ index_words' = FindAll(Lower(text), 0)
    /\ UNCHANGED <<text, query_words>>
    /\ UNCHANGED <<indexer_vars, engine_vars, search_vars, close_vars, task_vars>>

\* tokenize_and_lemmatize on the text as a query.
TokenizeQueryWords ==
    /\ "query" \notin tokenized
    /\ tokenized' = tokenized \cup {"query"}
    /\ query_words' = FindAll(Lower(text), 0)
    /\ UNCHANGED <<text, index_words>>
    /\ UNCHANGED <<indexer_vars, engine_vars, search_vars, close_vars, task_vars>>

(***************************************************************************)
(* The specifications.                                                     *)
(***************************************************************************)
\* Build, open, query, close.
Next ==
    \/ \E url \in Urls, name \in ContentNames :
           Len(history) < MaxFiles /\ ProcessFile(url, name)
    \/ FinishProcessFiles
    \/ \E order \in Orders(1..Len(partial_files)) : MergeIndexes(order)
    \/ LoadIndex
    \/ \E q \in Queries : BooleanAndSearch(q)
    \/ Rerun

Spec == Init /\ [][Next]_vars

\* Build, open, query and close, in any order once the engine is open.
NextClose ==
    \/ \E url \in Urls, name \in ContentNames :
           Len(history) < MaxCloseFiles /\ ProcessFile(url, name)
    \/ FinishProcessFiles
    \/ \E order \in Orders(1..Len(partial_files)) : MergeIndexes(order)
    \/ LoadIndex
    \/ \E q \in Queries : BooleanAndSearch(q)
    \/ Close

SpecClose == Init /\ [][NextClose]_vars

\* Build, open, and get_postings called from two tasks at once.
NextTasks ==
    \/ \E url \in Urls, name \in ContentNames :
           Len(history) < MaxTaskFiles /\ ProcessFile(url, name)
    \/ FinishProcessFiles
    \/ \E order \in Orders(1..Len(partial_files)) : MergeIndexes(order)
    \/ LoadIndex
    \/ \E t \in Tasks, term \in TaskTerms : TaskCall(t, term)
    \/ \E t \in Tasks : TaskSeek(t)
    \/ \E t \in Tasks : TaskReadLine(t)
    \/ \E t \in Tasks : TaskParse(t)

SpecTasks == Init /\ [][NextTasks]_vars

\* The build alone, over longer corpora.
NextDedup ==
    \/ \E url \in Urls, name \in ContentNames :
           Len(history) < MaxDedupFiles /\ ProcessFile(url, name)
    \/ FinishProcessFiles

SpecDedup == Init /\ [][NextDedup]_vars

\* process_files, then merge_indexes on the same object or on a new one.
NextRemerge ==
    \/ \E url \in Urls, name \in ContentNames :
           Len(history) < MaxRemergeFiles /\ ProcessFile(url, name)
    \/ FinishProcessFiles
    \/ NewIndexer
    \/ \E order \in Orders(1..Len(partial_files)) : MergeIndexes(order)

SpecRemerge == Init /\ [][NextRemerge]_vars

\* The two tokenizers on every text.
InitTokenizer == InitProgram /\ text \in Texts

NextTokenizer ==
    \/ ExtractTokensWords
    \/ TokenizeQueryWords

SpecTokenizer == InitTokenizer /\ [][NextTokenizer]_vars

(***************************************************************************)
(* What the properties below are stated over.                              *)
(***************************************************************************)
\* The record of the final index file for a term, read off the file itself.
FilePostings(term) ==
    IF \E i \in 1..Len(final_index_file) : final_index_file[i][1].key = term
    THEN final_index_file[CHOOSE i \in 1..Len(final_index_file) :
                              final_index_file[i][1].key = term][1].value
    ELSE EmptyDict

\* The terms of the model's vocabulary, after lemmatization.
Terms == {"alpha", "beta", "gamma", "zeta"}

TokensOf(i) == extract_tokens(Content[history[i].content])

\* The files of the corpus that were accepted, as positions of history.
Accepted == {i \in 1..Len(history) : history[i].accepted}

\* The accepted files ingested before file i, oldest first.
AcceptedBefore(i) == SelectSeq([j \in 1..(i - 1) |-> j], LAMBDA j : history[j].accepted)

\* Every url that occurs in a posting list, in memory or on disk.
LineUrls(lines) == UNION {DOMAIN lines[i][1].value : i \in 1..Len(lines)}

PostingUrls ==
    UNION {DOMAIN inverted_index[i].value : i \in 1..Len(inverted_index)}
    \cup UNION {LineUrls(partial_files[k]) : k \in 1..Len(partial_files)}
    \cup LineUrls(final_index_file)

\* The place of doc_id in a ranked list.
Place(list, doc_id) == CHOOSE i \in 1..Len(list) : list[i] = doc_id

(***************************************************************************)
(* C1.  boolean_and_search returns exactly the DocIDs that are keys of the *)
(* posting list of every query term, each once; if a query term is absent  *)
(* from the term directory the result is empty.  (A query without terms    *)
(* returns the empty list.)                                                *)
(***************************************************************************)
C1_SearchIsIntersection ==
    search_status = "ok" =>
        LET terms == tokenize_and_lemmatize(query)
            expected ==
                IF terms = <<>> THEN {}
                ELSE {d \in Urls : \A i \in 1..Len(terms) : d \in DOMAIN FilePostings(terms[i])}
        IN  /\ SeqToSet(ranked) = expected
            /\ Len(ranked) = Cardinality(expected)
            /\ (\E i \in 1..Len(terms) : terms[i] \notin DOMAIN term_offsets)
                   => ranked = <<>>

\* A two-term query answered with a document, while another document has
\* only one of the terms.
C1_Witness ==
    /\ search_status = "ok"
    /\ Len(query) = 2
    /\ ranked # <<>>
    /\ \E d \in DOMAIN FilePostings("alpha") : d \notin SeqToSet(ranked)

(***************************************************************************)
(* C2.  After a full build and opening the final index, for every term t   *)
(* that occurs in k accepted documents, get_postings(t) has exactly k      *)
(* entries, one per accepted document containing t, each with tf equal to  *)
(* the number of occurrences of t in that document's token sequence.       *)
(***************************************************************************)
C2_PostingsComplete ==
    engine = "ready" =>
        \A t \in Terms :
            LET docs == {i \in Accepted : t \in SeqToSet(TokensOf(i))}
                postings == get_postings(t)
            IN  /\ Cardinality(DOMAIN postings) = Cardinality(docs)
                /\ \A i \in docs :
                       /\ history[i].url \in DOMAIN postings
                       /\ postings[history[i].url].tf = Count(TokensOf(i), t)

(***************************************************************************)
(* C3.  A document is rejected as a near-duplicate if and only if among    *)
(* the RecentWindow most recently accepted documents there is one whose    *)
(* fingerprint is at Hamming distance below the threshold and whose        *)
(* Jaccard similarity with it exceeds the threshold; documents accepted    *)
(* longer ago are never compared.                                          *)
(***************************************************************************)
C3_RejectedIffRecentDuplicate ==
    \A i \in 1..Len(history) :
        LET recent == LastN(AcceptedBefore(i), RecentWindow)
            near == \E k \in 1..Len(recent) :
                        /\ hamming_distance(SimhashOf[history[i].content],
                                            SimhashOf[history[recent[k]].content])
                               < HammingThreshold
                        /\ JaccardExceeds(TokensOf(i), TokensOf(recent[k]))
        IN  history[i].accepted = ~near

(***************************************************************************)
(* C4.  As claimed: of any two consecutively ingested documents with       *)
(* byte-identical content and distinct urls, the second is dropped; in the *)
(* two-document corpus the document count is 1 and every posting list      *)
(* contains only the first url.                                            *)
(***************************************************************************)
C4_IdenticalSecondDropped ==
    \A i \in 1..(Len(history) - 1) :
        (history[i].content = history[i + 1].content /\ history[i].url # history[i + 1].url)
            => /\ ~history[i + 1].accepted
               /\ Len(history) = 2 => (doc_count = 1 /\ PostingUrls \subseteq {history[1].url})

(***************************************************************************)
(* C4, amended.  If the first two documents of a corpus have byte-         *)
(* identical content that yields at least one token and distinct urls,     *)
(* the second is dropped; in the two-document corpus the document count    *)
(* is 1 and every posting list contains only the first url.                *)
(***************************************************************************)
C4_IdenticalWithTokensDropped ==
    (/\ Len(history) >= 2
     /\ history[1].content = history[2].content
     /\ history[1].url # history[2].url
     /\ TokensOf(1) # <<>>)
        => /\ ~history[2].accepted
           /\ Len(history) = 2 => (doc_count = 1 /\ PostingUrls \subseteq {history[1].url})

\* The two-document corpus of identical documents, built and merged.
C4_Witness ==
    /\ phase = "merged"
    /\ Len(history) = 2
    /\ history[1].content = history[2].content
    /\ history[1].url # history[2].url
    /\ TokensOf(1) # <<>>
    /\ PostingUrls = {history[1].url}

(***************************************************************************)
(* C5.  Concurrent get_postings calls are safe: under every interleaving   *)
(* each call returns the posting list of its own term.                     *)
(***************************************************************************)
C5_TaskReturnsOwnPostings ==
    \A t \in Tasks :
        task_pc[t] = "done" => task_ret[t] = FilePostings(task_term[t])

(***************************************************************************)
(* C6.  close is idempotent: once the store is open, every call of close   *)
(* completes without error and leaves the store closed.                    *)
(***************************************************************************)
C6_CloseIdempotent == ~close_raised

(***************************************************************************)
(* C7.  Ranking is deterministic: two independent runs of build, open and  *)
(* boolean_and_search with the same query return the same DocIDs in the    *)
(* same order, documents of equal score included.                          *)
(***************************************************************************)
C7_RankingDeterministic == rerun_status = "ok" => rerun_ranked = ranked

(***************************************************************************)
(* C8.  As claimed: in a two-document corpus where one document has the    *)
(* query term with tf >= 2 and the other with tf = 1, the single-term      *)
(* query ranks the first strictly above the second.                        *)
(***************************************************************************)
C8_HigherTfRanksFirst ==
    (search_status = "ok" /\ Len(query) = 1 /\ doc_count = 2) =>
        LET postings == FilePostings(tokenize_and_lemmatize(query)[1])
        IN  \A a, b \in DOMAIN postings :
                (postings[a].tf >= 2 /\ postings[b].tf = 1)
                    => Place(ranked, a) < Place(ranked, b)

(***************************************************************************)
(* C8, amended.  Where one document has the query term with tf >= 2,       *)
(* another with tf = 1, and the term's document frequency is below the     *)
(* document count N (some accepted document lacks the term), the           *)
(* single-term query ranks the first strictly above the second.  (With     *)
(* df = N, as in the two-document corpus, both weights are 0 and the       *)
(* order is either.)                                                       *)
(***************************************************************************)
C8_HigherTfRanksFirstWhenIdfPositive ==
    (search_status = "ok" /\ Len(query) = 1) =>
        LET term == tokenize_and_lemmatize(query)[1]
            postings == FilePostings(term)
        IN  \A a, b \in DOMAIN postings :
                (/\ postings[a].tf >= 2
                 /\ postings[b].tf = 1
                 /\ DfOf(document_frequencies, term) < doc_count)
                    => Place(ranked, a) < Place(ranked, b)

\* Three documents, one without the term, one with tf 2 and one with tf 1.
C8_Witness ==
    /\ search_status = "ok"
    /\ query = <<"alpha">>
    /\ DfOf(document_frequencies, "alpha") < doc_count
    /\ \E a, b \in DOMAIN FilePostings("alpha") :
           /\ FilePostings("alpha")[a].tf >= 2
           /\ FilePostings("alpha")[b].tf = 1
           /\ ranked = <<a, b>>

(***************************************************************************)
(* C9.  As claimed: after a full build every accepted DocID appears in the *)
(* posting list of at least one term of the final index.                   *)
(***************************************************************************)
C9_AcceptedDocIndexed ==
    phase = "merged" => doc_urls \subseteq LineUrls(final_index_file)

(***************************************************************************)
(* C9, amended.  After a full build every DocID under which a document     *)
(* with at least one token was accepted appears in the posting list of at  *)
(* least one term of the final index.                                      *)
(***************************************************************************)
C9_AcceptedDocWithTokensIndexed ==
    phase = "merged" =>
        \A i \in Accepted :
            TokensOf(i) # <<>> => history[i].url \in LineUrls(final_index_file)

\* A merged index with an indexed document and an accepted token-less one.
C9_Witness ==
    /\ phase = "merged"
    /\ \E i \in Accepted : TokensOf(i) # <<>>
    /\ \E d \in doc_urls : d \notin LineUrls(final_index_file)

(***************************************************************************)
(* C10.  In every build state the document frequency of each term is at    *)
(* least 1 and at most the accepted-document count, so every posting of    *)
(* the final index has tf_idf >= 0, and tf_idf = 0 exactly for the terms   *)
(* with df = N.                                                            *)
(***************************************************************************)
C10_WeightsNonNegative ==
    /\ \A t \in DOMAIN document_frequencies :
           document_frequencies[t] >= 1 /\ document_frequencies[t] <= doc_count
    /\ \A i \in 1..Len(final_index_file) :
           LET term == final_index_file[i][1].key
               postings == final_index_file[i][1].value
           IN  \A d \in DOMAIN postings :
                   /\ postings[d].tf_idf >= 0
                   /\ postings[d].tf_idf = 0
                          <=> DfOf(document_frequencies, term) = doc_count

\* A final index with a term in every document and a term in some only.
C10_Witness ==
    /\ phase = "merged"
    /\ \E i \in 1..Len(final_index_file), d \in Urls :
           /\ d \in DOMAIN final_index_file[i][1].value
           /\ final_index_file[i][1].value[d].tf_idf = 0
    /\ \E i \in 1..Len(final_index_file), d \in Urls :
           /\ d \in DOMAIN final_index_file[i][1].value
           /\ final_index_file[i][1].value[d].tf_idf > 0

(***************************************************************************)
(* C11.  During process_files write_partial_index is called after an       *)
(* accepted document exactly when chunk_size documents have been accepted  *)
(* since the previous spill, or the accumulator's distinct-term count has  *)
(* reached the token ceiling.                                              *)
(***************************************************************************)
\* The last file before file i after which the accumulator was spilled.
PreviousSpill(i) ==
    LET spills == {k \in 1..(i - 1) : history[k].spilled}
    IN  IF spills = {} THEN 0 ELSE CHOOSE k \in spills : \A m \in spills : m <= k

\* The documents accepted since the previous spill, file i included.
AcceptedSinceSpill(i) ==
    Cardinality({j \in Accepted : PreviousSpill(i) < j /\ j <= i})

C11_SpillExactlyWhenDue ==
    \A i \in Accepted :
        history[i].spilled <=>
            \/ AcceptedSinceSpill(i) = chunk_size
            \/ history[i].terms >= MAX_TOKEN_THRESHOLD

(***************************************************************************)
(* C12.  At merge time, for every term of the merged index the document    *)
(* frequency used to compute idf equals the number of entries of the       *)
(* term's merged posting list.                                             *)
(***************************************************************************)
C12_DfIsPostingCount ==
    phase = "merged" =>
        \A i \in 1..Len(inverted_index) :
            DfOf(document_frequencies, inverted_index[i].key)
                = Cardinality(DOMAIN inverted_index[i].value)

(***************************************************************************)
(* C13.  If merge_indexes meets a term that is in a partial segment but    *)
(* not in the document-frequency map, the build fails and no final index   *)
(* entry with a weight is written for the term: every term of the final    *)
(* index has a document frequency of at least 1.                           *)
(***************************************************************************)
C13_MissingDfFailsBuild ==
    phase = "merged" =>
        \A i \in 1..Len(final_index_file) :
            DfOf(document_frequencies, final_index_file[i][1].key) >= 1

(***************************************************************************)
(* C14.  For every text, both tokenizers yield, before lemmatization,      *)
(* exactly the sequence of lowercased maximal runs of ASCII letters and    *)
(* digits, every other character (the underscore and non-ASCII letters     *)
(* included) being a separator.                                            *)
(***************************************************************************)
\* The maximal runs of [a-zA-Z0-9] of s, with the run in progress in run.
RECURSIVE MaximalRuns(_, _)
MaximalRuns(s, run) ==
    IF s = <<>> THEN (IF run = <<>> THEN <<>> ELSE <<run>>)
    ELSE IF IsAlnum(Head(s)) THEN MaximalRuns(Tail(s), Append(run, Head(s)))
    ELSE (IF run = <<>> THEN <<>> ELSE <<run>>) \o MaximalRuns(Tail(s), <<>>)

C14_WordsAreMaximalRuns ==
    /\ "index" \in tokenized => index_words = MaximalRuns(Lower(text), <<>>)
    /\ "query" \in tokenized => query_words = MaximalRuns(Lower(text), <<>>)

====
